---- MODULE Spec2Model ----
(***************************************************************************)
(* A model of jinja2xlsx/api.py: the conversion of an HTML table into an   *)
(* openpyxl worksheet.  Strings are TLA+ strings (sequences of             *)
(* characters); the string helpers below compute what the Python string    *)
(* methods and the regular expressions of api.py compute.                  *)
(***************************************************************************)
EXTENDS Integers, Sequences, FiniteSets, TLC

VARIABLES
    call,            \* the function under call and its argument(s)
    ret,             \* what the call returned, or the exception it raised
    table,           \* fill: the <tr> list, each row its style attr and its <td> list
    default_style,   \* fill: the default_style argument
    pc,              \* position in the running function
    ri,              \* fill: how many <tr> the outer for loop has taken
    ci,              \* fill: how many <td> of the current row the inner loop has taken
    row_index,       \* fill: local row_index
    col_index,       \* fill: local col_index
    scan_start,      \* fill: col_index when the current <td> was taken (history)
    merged_cells,    \* sheet.merged_cells: the ranges merged, in creation order
    cell_value,      \* sheet: (row, col) -> value of the cells written
    cell_border,     \* sheet: (row, col) -> Border of the cells whose border was set
    cell_alignment,  \* sheet: (row, col) -> Alignment (or None) set on the cell
    cell_font,       \* sheet: (row, col) -> Font (or None) set on the cell
    row_height,      \* sheet.row_dimensions[r].height, for the rows where it was set
    column_width,    \* sheet.column_dimensions[c].width, for the columns where set
    visited,         \* fill: the <td> processed so far, in order (history)
    raised           \* the exception that ended the run, "" when none

vars == <<call, ret, table, default_style, pc, ri, ci, row_index, col_index,
          scan_start, merged_cells, cell_value, cell_border, cell_alignment,
          cell_font, row_height, column_width, visited, raised>>

sheetVars == <<merged_cells, cell_value, cell_border, cell_alignment, cell_font,
               row_height, column_width>>

fillVars == <<table, default_style, ri, ci, row_index, col_index, scan_start, visited>>

-----------------------------------------------------------------------------
(* Bounds of the model. *)

\* longest style string given to style_to_dict
MaxStyleLen == 5
\* longest cell text given to parse_cell_value
MaxTextLen == 4
\* most <col> elements of a colgroup
MaxCols == 3
\* most <tr> of a table
MaxRows == 2
\* most <td> of a whole table
MaxCells == 3
\* largest colspan / rowspan
MaxSpan == 2

-----------------------------------------------------------------------------
(* Python values. *)

\* Python's None, and the wrappers that keep values of different types comparable
None == [none |-> TRUE]
PyIntVal(n) == [int |-> n]
PyStr(s) == [str |-> s]
\* a float as sign, decimal mantissa and decimal exponent: (-1)^neg * m * 10^e
PyFloatVal(neg, m, e) == [neg |-> neg, m |-> m, e |-> e]
\* an exception leaving a function
Raise(name) == [exception |-> name]
IsRaise(v) == DOMAIN v = {"exception"}

\* an exact fraction n/d in lowest terms: the floats of the pixel and unit
\* conversions (float("20") is Frac(20, 1))
RECURSIVE GCD(_, _)
GCD(a, b) == IF b = 0 THEN a ELSE GCD(b, a % b)
Frac(n, d) == [num |-> n \div GCD(n, d), den |-> d \div GCD(n, d)]

-----------------------------------------------------------------------------
(* Python string methods. *)

Ch(s, i) == SubSeq(s, i, i)
Digits == {"0", "1", "2", "3", "4", "5", "6", "7", "8", "9"}
Whitespace == {" "}

\* index of the first occurrence of character c in s at or after i, 0 when none
RECURSIVE FindCh(_, _, _)
FindCh(s, c, i) ==
    IF i > Len(s) THEN 0
    ELSE IF Ch(s, i) = c THEN i
    ELSE FindCh(s, c, i + 1)

\* str.split(sep) for a one-character separator: always at least one piece
RECURSIVE Split(_, _)
Split(s, sep) ==
    LET k == FindCh(s, sep, 1)
    IN  IF k = 0 THEN <<s>>
        ELSE <<SubSeq(s, 1, k - 1)>> \o Split(SubSeq(s, k + 1, Len(s)), sep)

RECURSIVE LStrip(_)
LStrip(s) ==
    IF Len(s) > 0 /\ Ch(s, 1) \in Whitespace THEN LStrip(SubSeq(s, 2, Len(s))) ELSE s

RECURSIVE RStrip(_)
RStrip(s) ==
    IF Len(s) > 0 /\ Ch(s, Len(s)) \in Whitespace
    THEN RStrip(SubSeq(s, 1, Len(s) - 1)) ELSE s

\* str.strip()
Strip(s) == RStrip(LStrip(s))

\* filter(None, pieces): the pieces that are not the empty string
RECURSIVE FilterNonEmpty(_)
FilterNonEmpty(pieces) ==
    IF pieces = <<>> THEN <<>>
    ELSE IF Head(pieces) = "" THEN FilterNonEmpty(Tail(pieces))
    ELSE <<Head(pieces)>> \o FilterNonEmpty(Tail(pieces))

\* whether p occurs in s at position i
OccursAt(s, i, p) == i + Len(p) - 1 <= Len(s) /\ SubSeq(s, i, i + Len(p) - 1) = p

\* number of digit characters of s starting at position i
RECURSIVE DigitRun(_, _)
DigitRun(s, i) ==
    IF i <= Len(s) /\ Ch(s, i) \in Digits THEN 1 + DigitRun(s, i + 1) ELSE 0

DigitVal(c) ==
    CASE c = "0" -> 0 [] c = "1" -> 1 [] c = "2" -> 2 [] c = "3" -> 3 [] c = "4" -> 4
      [] c = "5" -> 5 [] c = "6" -> 6 [] c = "7" -> 7 [] c = "8" -> 8 [] c = "9" -> 9

\* the number a string of digits denotes
RECURSIVE DecimalValue(_)
DecimalValue(s) ==
    IF s = "" THEN 0
    ELSE 10 * DecimalValue(SubSeq(s, 1, Len(s) - 1)) + DigitVal(Ch(s, Len(s)))

\* all strings over an alphabet of at most n characters
RECURSIVE Strings(_, _)
Strings(alphabet, n) ==
    IF n = 0 THEN {""}
    ELSE LET shorter == Strings(alphabet, n - 1)
         IN  shorter \cup {s \o c : s \in shorter, c \in alphabet}

-----------------------------------------------------------------------------
(* Python's int(str) and float(str). *)

\* digits with single underscores between them, as int() and float() accept
IsDigitGroup(s) ==
    /\ Len(s) > 0
    /\ Ch(s, 1) \in Digits
    /\ Ch(s, Len(s)) \in Digits
    /\ \A i \in 1..Len(s) : Ch(s, i) \in Digits \cup {"_"}
    /\ \A i \in 1..(Len(s) - 1) : ~(Ch(s, i) = "_" /\ Ch(s, i + 1) = "_")

RECURSIVE DropUnderscores(_)
DropUnderscores(s) ==
    IF s = "" THEN ""
    ELSE IF Ch(s, 1) = "_" THEN DropUnderscores(SubSeq(s, 2, Len(s)))
    ELSE Ch(s, 1) \o DropUnderscores(SubSeq(s, 2, Len(s)))

HasSign(s) == Len(s) > 0 /\ Ch(s, 1) \in {"+", "-"}
Unsigned(s) == IF HasSign(s) THEN SubSeq(s, 2, Len(s)) ELSE s
IsNegative(s) == Len(s) > 0 /\ Ch(s, 1) = "-"

\* int(text) in base 10: surrounding whitespace, an optional sign, a digit group
PyInt(text) ==
    LET t == Strip(text)
        body == Unsigned(t)
    IN  IF IsDigitGroup(body)
        THEN PyIntVal((IF IsNegative(t) THEN -1 ELSE 1) * DecimalValue(DropUnderscores(body)))
        ELSE Raise("ValueError")

\* a decimal mantissa and exponent with the mantissa's trailing zeros moved out
RECURSIVE Normalise(_, _, _)
Normalise(neg, m, e) ==
    IF m = 0 THEN PyFloatVal(neg, 0, 0)
    ELSE IF m % 10 = 0 THEN Normalise(neg, m \div 10, e + 1)
    ELSE PyFloatVal(neg, m, e)

\* float(text): whitespace, sign, then inf / infinity / nan or
\* digits [. [digits]] | . digits, then an optional exponent
PyFloat(text) ==
    LET t == Strip(text)
        neg == IsNegative(t)
        body == Unsigned(t)
        epos == IF FindCh(body, "e", 1) # 0 THEN FindCh(body, "e", 1) ELSE FindCh(body, "E", 1)
        mant == IF epos = 0 THEN body ELSE SubSeq(body, 1, epos - 1)
        expo == IF epos = 0 THEN "" ELSE SubSeq(body, epos + 1, Len(body))
        dot == FindCh(mant, ".", 1)
        whole == IF dot = 0 THEN mant ELSE SubSeq(mant, 1, dot - 1)
        frac == IF dot = 0 THEN "" ELSE SubSeq(mant, dot + 1, Len(mant))
        mantOk == /\ whole = "" \/ IsDigitGroup(whole)
                  /\ frac = "" \/ IsDigitGroup(frac)
                  /\ whole # "" \/ frac # ""
        expOk == epos = 0 \/ IsDigitGroup(Unsigned(expo))
        fracDigits == DropUnderscores(frac)
        e == IF epos = 0 THEN 0
             ELSE (IF IsNegative(expo) THEN -1 ELSE 1) * DecimalValue(DropUnderscores(Unsigned(expo)))
    IN  IF body \in {"inf", "infinity"} THEN [inf |-> TRUE, neg |-> neg]
        ELSE IF body = "nan" THEN [nan |-> TRUE]
        ELSE IF mantOk /\ expOk
        THEN Normalise(neg, DecimalValue(DropUnderscores(whole) \o fracDigits),
                       e - Len(fracDigits))
        ELSE Raise("ValueError")

parse_cell_value_float_first(cell_text) ==
    IF ~IsRaise(PyFloat(cell_text)) THEN PyFloat(cell_text)
    ELSE IF ~IsRaise(PyInt(cell_text)) THEN PyInt(cell_text)
    ELSE IF cell_text = "" THEN None
    ELSE PyStr(cell_text)

\* parse_cell_value: int, else float, else None for "" and the text itself otherwise
parse_cell_value(cell_text) ==
    IF ~IsRaise(PyInt(cell_text)) THEN PyInt(cell_text)
    ELSE IF ~IsRaise(PyFloat(cell_text)) THEN PyFloat(cell_text)
    ELSE IF cell_text = "" THEN None
    ELSE PyStr(cell_text)

-----------------------------------------------------------------------------
(* The unit conversions. *)

\* pixels / 7.5
width_pixels_to_xlsx_units(pixels) == Frac(2 * pixels, 15)

\* pixels * 3 / 4, of a float that try_extract_pixels returned
height_pixels_to_xlsx_units(pixels) == Frac(pixels.num * 3, pixels.den * 4)

-----------------------------------------------------------------------------
(* Inline CSS: style_to_dict and the pixel extraction. *)

\* truthiness of an optional string: None and "" are falsy
Truthy(v) == v # None /\ v # PyStr("")
Or(a, b) == IF Truthy(a) THEN a ELSE b

\* a dict as a function from its keys; dict.get(key)
EmptyDict == [k \in {} |-> ""]
DictSet(d, k, v) == [x \in DOMAIN d \cup {k} |-> IF x = k THEN v ELSE d[x]]
Get(d, k) == IF k \in DOMAIN d THEN PyStr(d[k]) ELSE None

\* the comprehension of style_to_dict over the split pieces, a later key replacing
\* an earlier one; every piece is here known to split into exactly two parts
RECURSIVE DictOfPieces(_)
DictOfPieces(pieces) ==
    IF pieces = <<>> THEN EmptyDict
    ELSE LET last == Split(pieces[Len(pieces)], ":")
         IN  DictSet(DictOfPieces(SubSeq(pieces, 1, Len(pieces) - 1)),
                     Strip(last[1]), Strip(last[2]))

\* `for style, value in (style.split(":") ...)` unpacks exactly two parts
Unpacks(piece) == Len(Split(piece, ":")) = 2

style_to_dict(style_str) ==
    IF ~Truthy(style_str) THEN [dict |-> EmptyDict]
    ELSE LET pieces == FilterNonEmpty(Split(style_str.str, ";"))
         IN  IF \E i \in 1..Len(pieces) : ~Unpacks(pieces[i])
             THEN Raise("ValueError")
             ELSE [dict |-> DictOfPieces(pieces)]

\* the start of the first match of (\d+)px in s at or after i, 0 when there is none
RECURSIVE FindPixels(_, _)
FindPixels(s, i) ==
    IF i > Len(s) THEN 0
    ELSE LET n == DigitRun(s, i)
         IN  IF n > 0 /\ OccursAt(s, i + n, "px") THEN i
             ELSE FindPixels(s, i + 1)

\* try_extract_pixels: None for a falsy string, else float(re.findall(...)[0])
try_extract_pixels(pixel_str) ==
    IF ~Truthy(pixel_str) THEN None
    ELSE LET s == pixel_str.str
             k == FindPixels(s, 1)
         IN  IF k = 0 THEN Raise("IndexError")
             ELSE Frac(DecimalValue(SubSeq(s, k, k + DigitRun(s, k) - 1)), 1)

-----------------------------------------------------------------------------
(* openpyxl style values and the Style of jinja2xlsx.models. *)

\* a border side: None ("absent"), Side() ("unstyled"), Side(style="thin" / "medium")
Sides == {"absent", "unstyled", "thin", "medium"}
SideNames == {"left", "right", "top", "bottom"}

Border(l, r, t, b) == [left |-> l, right |-> r, top |-> t, bottom |-> b]
NoBorder == Border("absent", "absent", "absent", "absent")
Alignment(h, w) == [horizontal |-> h, wrap_text |-> w]
Font(b) == [bold |-> b]
PyBool(b) == [bool |-> b]

\* Side + Side and None-or-Side combinations of Serialisable.__add__: the left
\* operand's style wins when it has one
SideAdd(a, b) ==
    IF a = "absent" THEN b
    ELSE IF b = "absent" THEN a
    ELSE IF a # "unstyled" THEN a
    ELSE b

\* Border + Border
BorderAdd(a, b) == [n \in SideNames |-> SideAdd(a[n], b[n])]

\* Style(border, alignment, font); every field is None when not given
Style(border, alignment, font) == [border |-> border, alignment |-> alignment, font |-> font]
EmptyStyle == Style(None, None, None)

\* Style.union: each field is the other's when the other sets it, else self's
union(self, other) ==
    [f \in {"border", "alignment", "font"} |-> IF other[f] # None THEN other[f] ELSE self[f]]

-----------------------------------------------------------------------------
(* extract_style and its builders. *)

BorderAttrs == <<"border", "border-left", "border-right", "border-top", "border-bottom">>

\* re.match(r"\d+px solid black", rule): a match at the start, anything may follow
MatchesPxSolidBlack(rule) ==
    LET n == DigitRun(rule, 1)
    IN  n > 0 /\ OccursAt(rule, n + 1, "px solid black")

_from_border_attr(style_dict, border_attr) ==
    LET border_rule == Get(style_dict, border_attr)
        side == IF border_rule = PyStr("1px solid black") THEN "thin"
                ELSE IF MatchesPxSolidBlack(border_rule.str) THEN "medium"
                ELSE "unstyled"
    IN  IF ~Truthy(border_rule) THEN None
        ELSE CASE border_attr = "border" -> Border(side, side, side, side)
               [] border_attr = "border-left" -> Border(side, "absent", "absent", "absent")
               [] border_attr = "border-right" -> Border("absent", side, "absent", "absent")
               [] border_attr = "border-top" -> Border("absent", "absent", side, "absent")
               [] border_attr = "border-bottom" -> Border("absent", "absent", "absent", side)
               [] OTHER -> None

\* next(filter(None, candidates), Border()) over the candidates from position i on
RECURSIVE FirstBorder(_, _)
FirstBorder(style_dict, i) ==
    IF i > Len(BorderAttrs) THEN NoBorder
    ELSE IF _from_border_attr(style_dict, BorderAttrs[i]) # None
    THEN _from_border_attr(style_dict, BorderAttrs[i])
    ELSE FirstBorder(style_dict, i + 1)

\* a _build_border that adds the candidates up instead of taking the first
RECURSIVE SumBorders(_, _)
SumBorders(style_dict, i) ==
    IF i > Len(BorderAttrs) THEN NoBorder
    ELSE IF _from_border_attr(style_dict, BorderAttrs[i]) # None
    THEN BorderAdd(_from_border_attr(style_dict, BorderAttrs[i]), SumBorders(style_dict, i + 1))
    ELSE SumBorders(style_dict, i + 1)

_build_border_combining(style_dict) == SumBorders(style_dict, 1)

_build_border(style_dict) == FirstBorder(style_dict, 1)

_build_alignment(style_dict) ==
    LET word_wrap == Get(style_dict, "word-wrap")
        wrap_text == IF word_wrap = PyStr("break-word") THEN PyBool(TRUE)
                     ELSE IF word_wrap = PyStr("normal") THEN PyBool(FALSE)
                     ELSE None
    IN  Alignment(Get(style_dict, "text-align"), wrap_text)

_build_font(style_dict) == Font(Get(style_dict, "font-weight") = PyStr("bold"))

extract_style(style_attr) ==
    IF ~Truthy(style_attr) THEN EmptyStyle
    ELSE LET style_dict == style_to_dict(style_attr)
         IN  IF IsRaise(style_dict) THEN style_dict
             ELSE Style(_build_border(style_dict.dict),
                        _build_alignment(style_dict.dict),
                        _build_font(style_dict.dict))

-----------------------------------------------------------------------------
(* The row and column passes over the sheet. *)

\* try_adjust_row: the row heights after the call, or the exception it raises
try_adjust_row(heights, row_idx, row_style) ==
    LET style_dict == style_to_dict(row_style)
        height_str == Or(Or(Get(style_dict.dict, "line-height"),
                            Get(style_dict.dict, "height")), PyStr(""))
        row_height_px == try_extract_pixels(height_str)
    IN  IF IsRaise(style_dict) THEN style_dict
        ELSE IF IsRaise(row_height_px) THEN row_height_px
        ELSE IF row_height_px # None /\ row_height_px.num # 0
        THEN [heights |-> DictSet(heights, row_idx + 1,
                                  height_pixels_to_xlsx_units(row_height_px))]
        ELSE [heights |-> heights]

\* int(column.attrs.get("width", 0)): the default 0 when the attribute is missing
ColWidthInPixels(width_attr) ==
    IF width_attr = None THEN PyIntVal(0) ELSE PyInt(width_attr.str)

\* adjust_columns from the index-th <col> on: the column widths when the loop ends
\* or an exception stops it (the widths set before the exception stay set)
RECURSIVE adjust_columns(_, _, _)
adjust_columns(widths, columns, index) ==
    IF index >= Len(columns) THEN [widths |-> widths, raised |-> ""]
    ELSE LET col_width_in_pixels == ColWidthInPixels(columns[index + 1])
         IN  IF IsRaise(col_width_in_pixels)
             THEN [widths |-> widths, raised |-> col_width_in_pixels.exception]
             ELSE IF col_width_in_pixels.int = 0
             THEN adjust_columns(widths, columns, index + 1)
             ELSE adjust_columns(
                      DictSet(widths, index + 1,
                              width_pixels_to_xlsx_units(col_width_in_pixels.int)),
                      columns, index + 1)

-----------------------------------------------------------------------------
(* The calls of the single functions: their arguments. *)

OptStrings(strs) == {None} \cup {PyStr(s) : s \in strs}

StyleAlphabet == {"a", ":", ";", " "}
TextAlphabet == {"0", "1", ".", "-", "e", "a", " "}

\* values of the border properties
BorderRules == {"", "1px solid black", "2px solid black", "12px solid blacker",
                "1px dotted red"}
\* values of line-height and height
HeightRules == {"", "20px", "1.5em", "auto", "20", "0px", "h12px3px"}
\* width attributes of <col>
WidthAttrs == {None, PyStr("150px"), PyStr("150"), PyStr("0"), PyStr("15")}

\* the declarations of a style attribute: property -> value, over some of the keys
DeclsOver(keys, values) == UNION {[K -> values] : K \in SUBSET keys}

\* the text of a style attribute holding the declarations decls, written in the
\* order of the sequence props
RECURSIVE JoinDecls(_, _)
JoinDecls(decls, props) ==
    IF props = <<>> THEN ""
    ELSE (IF Head(props) \in DOMAIN decls
          THEN Head(props) \o ": " \o decls[Head(props)] \o "; "
          ELSE "") \o JoinDecls(decls, Tail(props))

Reverse(seq) == [i \in 1..Len(seq) |-> seq[Len(seq) + 1 - i]]

RECURSIVE SeqsUpTo(_, _)
SeqsUpTo(S, n) ==
    IF n = 0 THEN {<<>>}
    ELSE SeqsUpTo(S, n - 1) \cup {Append(q, x) : q \in SeqsUpTo(S, n - 1), x \in S}

HeightProps == <<"height", "line-height">>

Calls ==
    {[fn |-> "style_to_dict", style_str |-> v] :
        v \in OptStrings(Strings(StyleAlphabet, MaxStyleLen))}
    \cup {[fn |-> "parse_cell_value", cell_text |-> t] :
        t \in Strings(TextAlphabet, MaxTextLen)}
    \cup {[fn |-> "extract_style", decls |-> d,
           style_attr |-> PyStr(RStrip(JoinDecls(d, o)))] :
        d \in DeclsOver({BorderAttrs[i] : i \in 1..Len(BorderAttrs)}, BorderRules),
        o \in {BorderAttrs, Reverse(BorderAttrs)}}
    \cup {[fn |-> "try_adjust_row", row_idx |-> i, decls |-> d,
           row_style |-> PyStr(RStrip(JoinDecls(d, HeightProps)))] :
        i \in 0..1, d \in DeclsOver({"line-height", "height"}, HeightRules)}
    \cup {[fn |-> "try_adjust_row", row_idx |-> i, decls |-> EmptyDict,
           row_style |-> None] : i \in 0..1}
    \cup {[fn |-> "adjust_columns", columns |-> c] : c \in SeqsUpTo(WidthAttrs, MaxCols)}

-----------------------------------------------------------------------------
(* The specification of the single calls. *)

EmptySheet ==
    /\ merged_cells = <<>>
    /\ cell_value = <<>>
    /\ cell_border = <<>>
    /\ cell_alignment = <<>>
    /\ cell_font = <<>>
    /\ row_height = <<>>
    /\ column_width = <<>>

NoFill ==
    /\ table = <<>>
    /\ default_style = EmptyStyle
    /\ ri = 0
    /\ ci = 0
    /\ row_index = 0
    /\ col_index = 0
    /\ scan_start = 0
    /\ visited = <<>>

CallInit ==
    /\ call \in Calls
    /\ ret = None
    /\ pc = "call"
    /\ raised = ""
    /\ EmptySheet
    /\ NoFill

Returns(value) ==
    /\ ret' = value
    /\ pc' = IF IsRaise(value) THEN "raised" ELSE "return"
    /\ raised' = IF IsRaise(value) THEN value.exception ELSE ""
    /\ UNCHANGED <<call, fillVars>>

CallStyleToDict ==
    /\ pc = "call" /\ call.fn = "style_to_dict"
    /\ Returns(style_to_dict(call.style_str))
    /\ UNCHANGED sheetVars

CallParseCellValue ==
    /\ pc = "call" /\ call.fn = "parse_cell_value"
    /\ Returns(parse_cell_value(call.cell_text))
    /\ UNCHANGED sheetVars

CallExtractStyle ==
    /\ pc = "call" /\ call.fn = "extract_style"
    /\ Returns(extract_style(call.style_attr))
    /\ UNCHANGED sheetVars

CallTryAdjustRow ==
    /\ pc = "call" /\ call.fn = "try_adjust_row"
    /\ LET r == try_adjust_row(row_height, call.row_idx, call.row_style)
       IN  /\ Returns(IF IsRaise(r) THEN r ELSE None)
           /\ row_height' = IF IsRaise(r) THEN row_height ELSE r.heights
    /\ UNCHANGED <<merged_cells, cell_value, cell_border, cell_alignment, cell_font,
                   column_width>>

\* render's column pass: adjust_columns over the <col> of the table
CallAdjustColumns ==
    /\ pc = "call" /\ call.fn = "adjust_columns"
    /\ LET r == adjust_columns(column_width, call.columns, 0)
       IN  /\ Returns(IF r.raised # "" THEN Raise(r.raised) ELSE None)
           /\ column_width' = r.widths
    /\ UNCHANGED <<merged_cells, cell_value, cell_border, cell_alignment, cell_font,
                   row_height>>

CallNext ==
    \/ CallStyleToDict
    \/ CallParseCellValue
    \/ CallExtractStyle
    \/ CallTryAdjustRow
    \/ CallAdjustColumns

CallSpec == CallInit /\ [][CallNext]_vars

-----------------------------------------------------------------------------
(* The worksheet: ranges, merged cells and cell styles. *)

\* str_cell_range: the range "A1:B2" as its corner rows and columns
str_cell_range(start_column, start_row, end_column, end_row) ==
    [min_row |-> start_row, min_col |-> start_column,
     max_row |-> end_row, max_col |-> end_column]

RangeCells(rng) ==
    {<<r, c>> : r \in rng.min_row..rng.max_row, c \in rng.min_col..rng.max_col}
Anchor(rng) == <<rng.min_row, rng.min_col>>

IsMergedCell_never(merged, row, column) == FALSE

\* isinstance(sheet.cell(row, column), MergedCell): merge_cells turns every cell
\* of a range but its top-left one into a MergedCell
IsMergedCell(merged, row, column) ==
    \E i \in 1..Len(merged) :
        <<row, column>> \in RangeCells(merged[i]) /\ <<row, column>> # Anchor(merged[i])

\* cell.border of a cell: the default Border() until one is set
BorderOf(borders, pos) == IF pos \in DOMAIN borders THEN borders[pos] ELSE NoBorder

\* `cell.border = cell.border + side_border` for every cell of cells
AddBorder(borders, cells, side_border) ==
    [pos \in DOMAIN borders \cup cells |->
        IF pos \in cells THEN BorderAdd(BorderOf(borders, pos), side_border)
        ELSE borders[pos]]

TopRow(rng) == {pos \in RangeCells(rng) : pos[1] = rng.min_row}
BottomRow(rng) == {pos \in RangeCells(rng) : pos[1] = rng.max_row}
LeftColumn(rng) == {pos \in RangeCells(rng) : pos[2] = rng.min_col}
RightColumn(rng) == {pos \in RangeCells(rng) : pos[2] = rng.max_col}

\* a style_and_merge_cell_range whose last loop gives every cell of a row, not
\* only its first and last, the left and right sides
BordersOfRange_every_cell(borders, rng, border) ==
    LET top == Border("absent", "absent", border.top, "absent")
        left == Border(border.left, "absent", "absent", "absent")
        right == Border("absent", border.right, "absent", "absent")
        bottom == Border("absent", "absent", "absent", border.bottom)
    IN  AddBorder(AddBorder(AddBorder(AddBorder(borders, TopRow(rng), top),
                                      BottomRow(rng), bottom),
                            RangeCells(rng), left),
                  RangeCells(rng), right)

\* the three border loops of style_and_merge_cell_range
BordersOfRange(borders, rng, border) ==
    LET top == Border("absent", "absent", border.top, "absent")
        left == Border(border.left, "absent", "absent", "absent")
        right == Border("absent", border.right, "absent", "absent")
        bottom == Border("absent", "absent", "absent", border.bottom)
    IN  AddBorder(AddBorder(AddBorder(AddBorder(borders, TopRow(rng), top),
                                      BottomRow(rng), bottom),
                            LeftColumn(rng), left),
                  RightColumn(rng), right)

\* style_and_merge_cell_range on the sheet's merged ranges and cell styles: the
\* sheet after the call, or the exception it raises before changing anything
style_and_merge_cell_range(sheet, cell_range, style) ==
    LET first_cell == Anchor(cell_range)
        merges == style.alignment # None
        fonts == style.font # None
    IN  IF style.border = None THEN Raise("AttributeError")
        ELSE IF \E pos \in RangeCells(cell_range) : BorderOf(sheet.cell_border, pos) = None
        THEN Raise("TypeError")
        ELSE [merged_cells |-> IF merges THEN Append(sheet.merged_cells, cell_range)
                               ELSE sheet.merged_cells,
              cell_alignment |-> IF merges
                                 THEN DictSet(sheet.cell_alignment, first_cell, style.alignment)
                                 ELSE sheet.cell_alignment,
              cell_font |-> IF fonts THEN DictSet(sheet.cell_font, first_cell, style.font)
                            ELSE sheet.cell_font,
              cell_border |-> BordersOfRange(sheet.cell_border, cell_range, style.border)]

\* style_single_cell: every field of the style is set on the cell, None included
style_single_cell(sheet, pos, style) ==
    [merged_cells |-> sheet.merged_cells,
     cell_alignment |-> DictSet(sheet.cell_alignment, pos, style.alignment),
     cell_font |-> DictSet(sheet.cell_font, pos, style.font),
     cell_border |-> DictSet(sheet.cell_border, pos, style.border)]

-----------------------------------------------------------------------------
(* fill_sheet_with_table_data: its input tables. *)

\* the style attributes of the <td> (None: no attribute)
CellStyleAttrs == {None, PyStr("border-right: 2px solid black")}
\* the style attributes of the <tr>
RowStyleAttrs == {PyStr("line-height: 20px"), PyStr("height: auto")}
\* the default styles given to render
DefaultStyles ==
    {EmptyStyle,
     Style(Border("thin", "thin", "thin", "thin"), None, None),
     Style(Border("thin", "thin", "thin", "thin"),
           Alignment(PyStr("center"), None), Font(TRUE))}

\* a <td>: its text, int(colspan), int(rowspan) and its style attribute
Tds ==
    [text : {"1"}, colspan : 1..MaxSpan, rowspan : 1..MaxSpan, style : CellStyleAttrs]

RowsOf(n) == [style : RowStyleAttrs, tds : [1..n -> Tds]]

\* the tables of at most rows <tr> and at most cells <td> in all
RECURSIVE TablesOf(_, _)
TablesOf(rows, cells) ==
    IF rows = 0 THEN {<<>>}
    ELSE {<<>>} \cup
         UNION {{<<row>> \o rest : row \in RowsOf(n), rest \in TablesOf(rows - 1, cells - n)} :
                    n \in 0..cells}

-----------------------------------------------------------------------------
(* fill_sheet_with_table_data. *)

Init ==
    /\ call = [fn |-> "fill_sheet_with_table_data"]
    /\ ret = None
    /\ table \in TablesOf(MaxRows, MaxCells)
    /\ default_style \in DefaultStyles
    /\ pc = "tr"
    /\ ri = 0
    /\ ci = 0
    /\ row_index = 0
    /\ col_index = 0
    /\ scan_start = 0
    /\ visited = <<>>
    /\ raised = ""
    /\ EmptySheet

\* `for row in table.find("tr")` takes the next row: try_adjust_row
NextRow ==
    /\ pc = "tr"
    /\ ri < Len(table)
    /\ LET r == try_adjust_row(row_height, row_index, table[ri + 1].style)
       IN  IF IsRaise(r)
           THEN /\ pc' = "raised"
                /\ raised' = r.exception
                /\ UNCHANGED <<ri, ci, row_height>>
           ELSE /\ pc' = "td"
                /\ ri' = ri + 1
                /\ ci' = 0
                /\ row_height' = r.heights
                /\ UNCHANGED raised
    /\ UNCHANGED <<call, ret, table, default_style, row_index, col_index, scan_start,
                   merged_cells, cell_value, cell_border, cell_alignment, cell_font,
                   column_width, visited>>

\* the outer loop is exhausted: the function returns
FillDone ==
    /\ pc = "tr"
    /\ ri = Len(table)
    /\ pc' = "done"
    /\ UNCHANGED <<call, ret, raised, fillVars, sheetVars>>

\* `for html_cell in row.find("td")` takes the next cell:
\* target_cell = sheet.cell(row_index + 1, col_index + 1)
NextCell ==
    /\ pc = "td"
    /\ ci < Len(table[ri].tds)
    /\ ci' = ci + 1
    /\ scan_start' = col_index
    /\ pc' = "scan"
    /\ UNCHANGED <<call, ret, raised, table, default_style, ri, row_index, col_index,
                   visited, sheetVars>>

\* the inner loop is exhausted: row_index += 1; col_index = 0
EndRow ==
    /\ pc = "td"
    /\ ci = Len(table[ri].tds)
    /\ row_index' = row_index + 1
    /\ col_index' = 0
    /\ pc' = "tr"
    /\ UNCHANGED <<call, ret, raised, table, default_style, ri, ci, scan_start,
                   visited, sheetVars>>

\* one turn of `while True` on a MergedCell: col_index += 1 and the next cell
ScanStep ==
    /\ pc = "scan"
    /\ IsMergedCell(merged_cells, row_index + 1, col_index + 1)
    /\ col_index' = col_index + 1
    /\ UNCHANGED <<call, ret, raised, pc, table, default_style, ri, ci, row_index,
                   scan_start, visited, sheetVars>>

\* the target is no MergedCell: the value is written, the cell or its range
\* styled and merged, and col_index += colspan
FillCell ==
    /\ pc = "scan"
    /\ ~IsMergedCell(merged_cells, row_index + 1, col_index + 1)
    /\ LET html_cell == table[ri].tds[ci]
           target_cell == <<row_index + 1, col_index + 1>>
           colspan == html_cell.colspan
           rowspan == html_cell.rowspan
           cell_style == extract_style(html_cell.style)
           style == union(default_style, cell_style)
           cell_range == str_cell_range(col_index + 1, row_index + 1,
                                        col_index + colspan, row_index + rowspan)
           sheet == [merged_cells |-> merged_cells, cell_alignment |-> cell_alignment,
                     cell_font |-> cell_font, cell_border |-> cell_border]
           after == IF colspan > 1 \/ rowspan > 1
                    THEN style_and_merge_cell_range(sheet, cell_range, style)
                    ELSE style_single_cell(sheet, target_cell, style)
           exc == IF IsRaise(cell_style) THEN cell_style.exception
                  ELSE IF IsRaise(after) THEN after.exception
                  ELSE ""
       IN  /\ cell_value' = DictSet(cell_value, target_cell, parse_cell_value(html_cell.text))
           /\ visited' = Append(visited, [ri |-> ri, ci |-> ci, row |-> row_index + 1,
                                          col |-> col_index + 1, colspan |-> colspan,
                                          rowspan |-> rowspan, from |-> scan_start])
           /\ IF exc # ""
              THEN /\ pc' = "raised"
                   /\ raised' = exc
                   /\ UNCHANGED <<col_index, merged_cells, cell_border, cell_alignment,
                                  cell_font>>
              ELSE /\ pc' = "td"
                   /\ col_index' = col_index + colspan
                   /\ merged_cells' = after.merged_cells
                   /\ cell_border' = after.cell_border
                   /\ cell_alignment' = after.cell_alignment
                   /\ cell_font' = after.cell_font
                   /\ UNCHANGED raised
    /\ UNCHANGED <<call, ret, table, default_style, ri, ci, row_index, scan_start,
                   row_height, column_width>>

Next ==
    \/ NextRow
    \/ FillDone
    \/ NextCell
    \/ EndRow
    \/ ScanStep
    \/ FillCell

Spec == Init /\ [][Next]_vars

-----------------------------------------------------------------------------
(* style_and_merge_cell_range called on a fresh sheet, and then once more on *)
(* the sheet the first call has styled.                                      *)

\* the sheet's rows and columns that the ranges of these calls lie in
GridSize == 3

Ranges ==
    {str_cell_range(c1, r1, c2, r2) :
        r1 \in 1..GridSize, c1 \in 1..GridSize, r2 \in 1..GridSize, c2 \in 1..GridSize}
    \ {rng \in [min_row : 1..GridSize, min_col : 1..GridSize,
                max_row : 1..GridSize, max_col : 1..GridSize] :
            rng.max_row < rng.min_row \/ rng.max_col < rng.min_col}

\* the styles given to these calls
RangeStyles ==
    {EmptyStyle,
     Style(Border("thin", "thin", "thin", "thin"), Alignment(PyStr("center"), None), None),
     Style(Border("absent", "medium", "unstyled", "medium"), None, Font(TRUE))}

RangeInit ==
    /\ call = [fn |-> "style_and_merge_cell_range"]
    /\ ret = None
    /\ pc = "first call"
    /\ raised = ""
    /\ EmptySheet
    /\ NoFill

CallStyleAndMerge ==
    /\ pc \in {"first call", "second call"}
    /\ \E cell_range \in Ranges, style \in RangeStyles :
          LET sheet == [merged_cells |-> merged_cells, cell_alignment |-> cell_alignment,
                        cell_font |-> cell_font, cell_border |-> cell_border]
              after == style_and_merge_cell_range(sheet, cell_range, style)
          IN  /\ call' = [fn |-> "style_and_merge_cell_range",
                          cell_range |-> cell_range, style |-> style]
              /\ IF IsRaise(after)
                 THEN /\ pc' = "raised"
                      /\ raised' = after.exception
                      /\ ret' = after
                      /\ UNCHANGED <<merged_cells, cell_border, cell_alignment, cell_font>>
                 ELSE /\ pc' = IF pc = "first call" THEN "second call" ELSE "return"
                      /\ merged_cells' = after.merged_cells
                      /\ cell_border' = after.cell_border
                      /\ cell_alignment' = after.cell_alignment
                      /\ cell_font' = after.cell_font
                      /\ UNCHANGED <<raised, ret>>
    /\ UNCHANGED <<fillVars, cell_value, row_height, column_width>>

RangeNext == CallStyleAndMerge

RangeSpec == RangeInit /\ [][RangeNext]_vars

-----------------------------------------------------------------------------
(* Properties of fill_sheet_with_table_data, checked under Spec. *)

\* the range of a visited <td>
RangeOf(v) ==
    [min_row |-> v.row, min_col |-> v.col,
     max_row |-> v.row + v.rowspan - 1, max_col |-> v.col + v.colspan - 1]

Spans(v) == v.colspan > 1 \/ v.rowspan > 1

\* C1: when the fill has ended, every <td> with colspan > 1 or rowspan > 1 written
\* at (r, c) has produced exactly one merge range (r, c)-(r + rowspan - 1,
\* c + colspan - 1), whatever its style attribute and the default style, and no
\* range starts at a <td> with colspan = 1 and rowspan = 1.
C1_EverySpanMerged ==
    pc = "done" =>
        \A k \in 1..Len(visited) :
            IF Spans(visited[k])
            THEN Cardinality({i \in 1..Len(merged_cells) :
                                 merged_cells[i] = RangeOf(visited[k])}) = 1
            ELSE \A i \in 1..Len(merged_cells) :
                    Anchor(merged_cells[i]) # <<visited[k].row, visited[k].col>>

\* a cell absorbed by one of the ranges: in the range and not its top-left cell
Absorbed(ranges, row, column) ==
    \E i \in 1..Len(ranges) :
        /\ ranges[i].min_row <= row /\ row <= ranges[i].max_row
        /\ ranges[i].min_col <= column /\ column <= ranges[i].max_col
        /\ ~(row = ranges[i].min_row /\ column = ranges[i].min_col)

\* C2: a <td>'s value is written at the smallest column at or after the cursor
\* that no range merged earlier absorbs, in the row of its <tr>; the cursor then
\* advances by the colspan, and it is at column 0 when a <tr> begins.
C2_WrittenPastGhosts ==
    /\ [][Len(visited') = Len(visited) + 1 =>
            LET v == visited'[Len(visited')]
            IN  /\ v.row = v.ri
                /\ v.col > v.from
                /\ ~Absorbed(merged_cells, v.row, v.col)
                /\ \A c \in (v.from + 1)..(v.col - 1) : Absorbed(merged_cells, v.row, c)
                /\ <<v.row, v.col>> \in DOMAIN cell_value'
                /\ pc' = "td" => col_index' = v.col - 1 + v.colspan]_vars
    /\ [](pc = "td" /\ ci = 0 => col_index = 0)

C2_Witness ==
    /\ pc = "done"
    /\ \E k \in 1..Len(visited) :
          /\ visited[k].row = 2
          /\ visited[k].col > visited[k].from + 1

\* C3: no range merged by the fill shares a cell with a range merged earlier.
C3_NoOverlap ==
    \A i, j \in 1..Len(merged_cells) :
        i < j => RangeCells(merged_cells[i]) \cap RangeCells(merged_cells[j]) = {}

\* the <td> of a table in document order, as (number of the <tr>, number in it)
RECURSIVE TdsInOrder(_, _)
TdsInOrder(t, r) ==
    IF r > Len(t) THEN <<>>
    ELSE [i \in 1..Len(t[r].tds) |-> <<r, i>>] \o TdsInOrder(t, r + 1)

\* C9: the fill of every table comes to its end (the scan past merged cells
\* stops for every <td>), having visited every <td> once, in document order.
C9_FillReachesEnd ==
    \/ pc \in {"tr", "td", "scan"}
    \/ /\ pc = "done"
       /\ [k \in 1..Len(visited) |-> <<visited[k].ri, visited[k].ci>>] = TdsInOrder(table, 1)

-----------------------------------------------------------------------------
(* Properties of style_and_merge_cell_range, checked under RangeSpec. *)

\* the cells of a range that lie on the given side of it
OnSide(rng, pos, side) ==
    /\ rng.min_row <= pos[1] /\ pos[1] <= rng.max_row
    /\ rng.min_col <= pos[2] /\ pos[2] <= rng.max_col
    /\ CASE side = "top" -> pos[1] = rng.min_row
         [] side = "bottom" -> pos[1] = rng.max_row
         [] side = "left" -> pos[2] = rng.min_col
         [] side = "right" -> pos[2] = rng.max_col

\* a side combined with the side the cell already has: a weight the cell has stays
Combined(had, given) ==
    IF had \in {"thin", "medium"} THEN had
    ELSE IF given # "absent" THEN given
    ELSE had

StyleAt(styles, pos) == IF pos \in DOMAIN styles THEN styles[pos] ELSE None

Grid == (1..GridSize) \X (1..GridSize)

-----------------------------------------------------------------------------
(* Properties of the single calls, checked under CallSpec. *)

Returned(fn) == pc # "call" /\ call.fn = fn

\* the declarations the claim describes: split on ';', drop the segments that
\* are empty after trimming, split each at its first ':', trim both parts
FirstColonKey(seg) == Strip(SubSeq(seg, 1, FindCh(seg, ":", 1) - 1))
FirstColonValue(seg) == Strip(SubSeq(seg, FindCh(seg, ":", 1) + 1, Len(seg)))
IsBlank(seg) == Strip(seg) = ""

RECURSIVE DeclsOfSegments(_)
DeclsOfSegments(segs) ==
    IF segs = <<>> THEN EmptyDict
    ELSE LET seg == segs[Len(segs)]
             rest == DeclsOfSegments(SubSeq(segs, 1, Len(segs) - 1))
         IN  IF IsBlank(seg) THEN rest
             ELSE DictSet(rest, FirstColonKey(seg), FirstColonValue(seg))

WellFormedStyle(style_str) ==
    \/ ~Truthy(style_str)
    \/ LET segs == Split(style_str.str, ";")
       IN  \A i \in 1..Len(segs) :
               \/ FindCh(segs[i], ":", 1) # 0
               \/ segs[i] = ""
               \/ i = Len(segs) /\ i > 1 /\ IsBlank(segs[i])

DeclsOf(style_str) ==
    IF ~Truthy(style_str) THEN EmptyDict
    ELSE DeclsOfSegments(Split(style_str.str, ";"))

\* C5: for every style string whose segments each hold a ':' or are empty (the
\* text after the last ';' may also be whitespace), style_to_dict returns the
\* mapping got by splitting on ';', discarding the empty segments, splitting each
\* segment at its FIRST ':' only and trimming key and value; a value holding ':'
\* is kept whole, None and "" give the empty mapping, and the call does not fail.
C5_SplitsOnFirstColon ==
    (Returned("style_to_dict") /\ WellFormedStyle(call.style_str))
        => ret = [dict |-> DeclsOf(call.style_str)]

\* the weight the claim gives a border value
HasPxSolidBlackForm(rule) ==
    \E n \in 1..Len(rule) :
        /\ \A i \in 1..n : Ch(rule, i) \in Digits
        /\ OccursAt(rule, n + 1, "px solid black")

WeightOf(rule) ==
    IF rule = "1px solid black" THEN "thin"
    ELSE IF HasPxSolidBlackForm(rule) THEN "medium"
    ELSE "unstyled"

\* the border that the one honoured declaration gives
HonouredBorder(decls) ==
    LET present == {i \in 1..Len(BorderAttrs) :
                        BorderAttrs[i] \in DOMAIN decls /\ decls[BorderAttrs[i]] # ""}
    IN  IF present = {} THEN NoBorder
        ELSE LET first == CHOOSE i \in present : \A j \in present : i <= j
                 w == WeightOf(decls[BorderAttrs[first]])
             IN  [n \in SideNames |->
                    IF first = 1 \/ BorderAttrs[first] = "border-" \o n THEN w ELSE "absent"]

\* the four sides of a style: all absent when the style has no border at all
SidesOf(style) == IF style.border = None THEN NoBorder ELSE style.border

\* C6: extract_style honours exactly one border declaration: of border,
\* border-left, border-right, border-top, border-bottom in that order, the first
\* present with a non-empty value alone decides; border sets all four sides, a
\* directional property its own side only; thin for exactly "1px solid black",
\* medium for \d+px solid black, unspecified for any other value; no declaration,
\* no side.
C6_OneBorderDeclaration ==
    Returned("extract_style")
        => /\ pc = "return"
           /\ SidesOf(ret) = HonouredBorder(call.decls)

C6_Witness ==
    /\ Returned("extract_style")
    /\ call.decls = [k \in {"border-left", "border-right"} |->
                        IF k = "border-left" THEN "2px solid black" ELSE "1px solid black"]
    /\ ret.border = Border("medium", "absent", "absent", "absent")

\* the value try_adjust_row is to read the height from, per the claim
ChosenHeight(decls) ==
    IF "line-height" \in DOMAIN decls /\ decls["line-height"] # "" THEN decls["line-height"]
    ELSE IF "height" \in DOMAIN decls THEN decls["height"]
    ELSE ""

HasPixels(value) ==
    \E i \in 1..Len(value) : DigitRun(value, i) > 0 /\ OccursAt(value, i + DigitRun(value, i), "px")

FirstPixels(value) ==
    LET i == CHOOSE i \in 1..Len(value) :
                /\ DigitRun(value, i) > 0 /\ OccursAt(value, i + DigitRun(value, i), "px")
                /\ \A j \in 1..(i - 1) :
                     ~(DigitRun(value, j) > 0 /\ OccursAt(value, j + DigitRun(value, j), "px"))
    IN  DecimalValue(SubSeq(value, i, i + DigitRun(value, i) - 1))

\* C7: try_adjust_row never fails on a row style that parses into declarations:
\* it reads line-height, else height, and sets the height of row row_index + 1 to
\* N * 3 / 4 for the first "<digits>px" of the value; with neither property, or no
\* "<digits>px" in the value, the row height stays as it was and nothing is raised.
C7_NeverFails ==
    Returned("try_adjust_row")
        => /\ pc = "return"
           /\ row_height =
                IF HasPixels(ChosenHeight(call.decls))
                THEN (call.row_idx + 1) :> Frac(FirstPixels(ChosenHeight(call.decls)) * 3, 4)
                ELSE <<>>

\* C8: parse_cell_value is total: "" gives None; a text that int() parses gives
\* that integer, else a text that float() parses gives that float, else the text
\* itself; nothing is raised and the integer attempt comes first.
C8_ParseCellValue ==
    Returned("parse_cell_value")
        => /\ pc = "return"
           /\ ret = IF call.cell_text = "" THEN None
                    ELSE IF ~IsRaise(PyInt(call.cell_text)) THEN PyInt(call.cell_text)
                    ELSE IF ~IsRaise(PyFloat(call.cell_text)) THEN PyFloat(call.cell_text)
                    ELSE PyStr(call.cell_text)

C8_Witness ==
    /\ Returned("parse_cell_value")
    /\ call.cell_text = "1.1"
    /\ ret = PyFloatVal(FALSE, 11, -1)

\* a width attribute of the form "Npx", N a positive integer
IsPxWidth(width_attr) ==
    /\ width_attr # None
    /\ LET w == width_attr.str
       IN  /\ Len(w) > 2
           /\ DigitRun(w, 1) = Len(w) - 2
           /\ OccursAt(w, Len(w) - 1, "px")
           /\ DecimalValue(SubSeq(w, 1, Len(w) - 2)) > 0

PxOf(width_attr) == DecimalValue(SubSeq(width_attr.str, 1, Len(width_attr.str) - 2))

\* C4: given a colgroup whose <col> have a width "Npx", no width or width 0, the
\* k-th <col> with width "Npx" sets the width of sheet column k to N / 7.5, the
\* columns with no width or width 0 keep the default, and nothing is raised.
C4_PxWidthsSet ==
    (/\ Returned("adjust_columns")
     /\ \A k \in 1..Len(call.columns) :
            IsPxWidth(call.columns[k]) \/ call.columns[k] \in {None, PyStr("0")})
        => /\ pc = "return"
           /\ \A k \in 1..Len(call.columns) :
                IF IsPxWidth(call.columns[k])
                THEN k \in DOMAIN column_width
                     /\ column_width[k] = Frac(2 * PxOf(call.columns[k]), 15)
                ELSE k \notin DOMAIN column_width

====
